---- MODULE Spec2Model ----
(***************************************************************************)
(* Model of the ensemble forecasting engine of                            *)
(* backend/career_forecast_service.py: the random-walk-with-drift,        *)
(* exponential-smoothing and ARIMA estimators, the weighted combiner with  *)
(* its linear-regression fallback (robust_ensemble_forecast), and the      *)
(* length guard of its caller CareerForecaster.forecast_occupation.        *)
(* The same module holds the real-time job store (save_realtime_data)     *)
(* and the forecast route with its cache (generate_forecast), each with   *)
(* a specification of its own: StoreSpec and CacheSpec.                    *)
(*                                                                         *)
(* Real numbers are fixed-point integers with Scale units per 1 (two       *)
(* decimal digits); every division rounds down, as \div does.  The fits    *)
(* of statsmodels (ExponentialSmoothing, ARIMA) are library behaviour: an  *)
(* action draws what the library returns (which candidate fits raise, the  *)
(* AIC of those that converge, the in-sample error of the selected model)  *)
(* from small sets, and everything the service computes from it is         *)
(* computed as the code computes it.                                       *)
(***************************************************************************)
EXTENDS Integers, Sequences, FiniteSets, TLC

----------------------------------------------------------------------------
(* Bounds of the model *)

\* longest input series
MaxLen == 5
\* largest horizon of a direct call of robust_ensemble_forecast
MaxH == 1

(* Program constants *)

\* forecast_periods=7, the default every caller uses
DefaultPeriods == 7
\* len(ts) < 4: the random walk's guard off by one
MinPointsRWOff == 3 + 1
\* len(ts) < 3: the random walk needs 3 points
MinPointsRW == 3
\* len(ts) < 4: exponential smoothing needs 4 points
MinPointsES == 4
\* len(ts) < 4: ARIMA's guard off by one
MinPointsARIMAOff == 5 - 1
\* len(ts) < 5: ARIMA needs 5 points
MinPointsARIMA == 5
\* len(emp_ts) < 2: the guard off by one
MinPointsOccupationOff == 3 - 1
\* len(emp_ts) < 3 in forecast_occupation
MinPointsOccupation == 3

\* fixed-point resolution: Scale units per 1
Scale == 10 * 10
\* resolution of the raw weights 1 / max(mape, 0.1)
WScale == 10 * Scale
\* mape < 200
MapeLimit == 200 * Scale
\* max(mape, 0.1)
MapeFloor == Scale \div 10
\* the penalty written as the fraction 0.5 instead of the percentage 50.0
MapePenaltyAsFraction == Scale \div 2
\* the fixed penalty 50.0 used when a historical value is <= 0
MapePenalty == 50 * Scale
\* 1.96, in Scale units
Z95 == (196 * Scale) \div 100

----------------------------------------------------------------------------
(* Arithmetic *)

Abs(x) == IF x < 0 THEN -x ELSE x

Max(a, b) == IF a >= b THEN a ELSE b

RECURSIVE SumSeq(_)
SumSeq(s) == IF s = <<>> THEN 0 ELSE Head(s) + SumSeq(Tail(s))

\* largest r in lo..hi with r * r <= x (bisection)
RECURSIVE SqrtBetween(_, _, _)
SqrtBetween(x, lo, hi) ==
    IF lo >= hi THEN lo
    ELSE LET mid == (lo + hi + 1) \div 2
         IN  IF mid * mid <= x THEN SqrtBetween(x, mid, hi)
                               ELSE SqrtBetween(x, lo, mid - 1)

\* floor of the square root of a natural number
ISqrt(x) == SqrtBetween(x, 0, IF x < 46340 THEN x ELSE 46340)

\* np.sqrt(i) of a whole number i, in Scale units
SqrtOf(i) == ISqrt(i * Scale * Scale)

\* the mean of a non-empty sequence
Mean(s) == SumSeq(s) \div Len(s)

\* standard deviation with ddof delta degrees of freedom removed:
\* pandas' .std() has ddof = 1, np.std has ddof = 0
StdDev(s, ddof) ==
    LET m == Mean(s)
    IN  ISqrt(SumSeq([k \in 1..Len(s) |-> (s[k] - m) * (s[k] - m)]) \div (Len(s) - ddof))

\* the floor left out
Floor0Unfloored(x) == x

\* max(x, 0) and np.maximum(x, 0): a forecast or lower bound floored at 0
Floor0(x) == Max(x, 0)

AllPositive(s) == \A k \in 1..Len(s) : s[k] > 0

\* NaN, a missing observation (the mean of a year without a value): a
\* marker below every observation, on which no arithmetic is done
NaN == 0 - 1

HasNaN(s) == \E k \in 1..Len(s) : s[k] = NaN

\* sklearn's mean_absolute_error raises ValueError when its input holds NaN
MetricsRaise(y) == HasNaN(y)

\* sklearn's mean_absolute_error
mean_absolute_error(y, fit) ==
    SumSeq([k \in 1..Len(y) |-> Abs(y[k] - fit[k])]) \div Len(y)

\* sklearn's mean_absolute_percentage_error * 100, for y > 0
mean_absolute_percentage_error(y, fit) ==
    (100 * SumSeq([k \in 1..Len(y) |-> (Abs(y[k] - fit[k]) * Scale) \div y[k]])) \div Len(y)

\* the guarded mape every estimator reports
Mape(y, fit) ==
    IF AllPositive(y) THEN mean_absolute_percentage_error(y, fit) ELSE MapePenalty

----------------------------------------------------------------------------
(* Results *)

\* Python's None
None == [isNone |-> TRUE]

IsNone(r) == r.isNone

----------------------------------------------------------------------------
(* 4.1 Random walk with drift *)

\* ts.diff().dropna()
Diff(ts) == [k \in 1..(Len(ts) - 1) |-> ts[k + 1] - ts[k]]

\* drift_std after the degenerate-case substitution: the standard deviation
\* of the changes, or, when it is NaN (fewer than 2 changes) or 0, 10% of
\* |drift| if that is non-zero and else 10% of ts.std()
DriftStd(ts) ==
    LET changes == Diff(ts)
        drift == Mean(changes)
        drift_std == IF Len(changes) < 2 THEN 0 ELSE StdDev(changes, 1)
    IN  IF Len(changes) < 2 \/ drift_std = 0
        THEN IF Abs(drift) > 0 THEN Abs(drift) \div 10
                               ELSE StdDev(ts, 1) \div 10
        ELSE drift_std

\* 1.96 * drift_std * (i + 1): the half width growing with the step itself
ConfidenceIntervalLinear(drift_std, step) ==
    (Z95 * drift_std * step) \div Scale

\* 1.96 * drift_std * np.sqrt(i + 1), with step the 1-indexed i + 1
ConfidenceInterval(drift_std, step) ==
    (Z95 * drift_std * SqrtOf(step)) \div (Scale * Scale)

\* range(forecast_periods - 1): one step short
RWStepsShort(forecast_periods) == 1..(forecast_periods - 1)

\* range(forecast_periods): the steps the random walk forecasts
RWSteps(forecast_periods) == 1..forecast_periods

\* one-step-ahead fitted values: the drift added to the previous observation
FittedOneStepAhead(ts, drift) ==
    [k \in 1..Len(ts) |-> IF k = 1 THEN ts[1] ELSE ts[k - 1] + drift]

\* fitted_rw: the drift added again and again to the first observation
FittedRW(ts, drift) == [k \in 1..Len(ts) |-> ts[1] + (k - 1) * drift]

enhanced_random_walk_forecast(ts, forecast_periods) ==
    IF Len(ts) < MinPointsRW \/ MetricsRaise(ts) THEN None
    ELSE
      LET drift == Mean(Diff(ts))
          drift_std == DriftStd(ts)
          last_value == ts[Len(ts)]
          forecast(i) == last_value + drift * i
          fitted_rw == FittedRW(ts, drift)
      IN  [isNone |-> FALSE,
           method |-> "Random Walk with Drift",
           forecasts |-> [i \in RWSteps(forecast_periods) |-> Floor0(forecast(i))],
           lower_bounds |-> [i \in RWSteps(forecast_periods) |->
                               Floor0(forecast(i) - ConfidenceInterval(drift_std, i))],
           upper_bounds |-> [i \in RWSteps(forecast_periods) |->
                               forecast(i) + ConfidenceInterval(drift_std, i)],
           fitted_values |-> fitted_rw,
           mae |-> mean_absolute_error(ts, fitted_rw),
           mape |-> Mape(ts, fitted_rw)]

----------------------------------------------------------------------------
(* What statsmodels returns *)

\* the in-sample relative error, in percent, of the selected model
RelErrors == {0, 199, 200}

\* the selected model after its fit: forecasting raises, or it forecasts and
\* its fitted values are off by relerr percent of each observation
LibraryRuns == {[raises |-> TRUE, relerr |-> 0]} \cup
               {[raises |-> FALSE, relerr |-> r] : r \in RelErrors}

\* fittedvalues of the selected model
LibraryFitted(ts, relerr) == [k \in 1..Len(ts) |-> ts[k] + (ts[k] * relerr) \div 100]

\* best_model.forecast(steps): flat for the model without trend, the last
\* change continued for the additive trend, growth by half per step for the
\* multiplicative trend
RECURSIVE Grow(_, _)
Grow(v, i) == IF i = 0 THEN v ELSE Grow((v * 3) \div 2, i - 1)

LibraryForecastES(ts, config, forecast_periods) ==
    LET last == ts[Len(ts)]
        prev == ts[Len(ts) - 1]
    IN  [i \in 1..forecast_periods |->
            IF config = "Simple" THEN last
            ELSE IF config = "Linear Trend" THEN last + i * (last - prev)
            ELSE Grow(last, i)]

\* get_forecast(steps).predicted_mean: the series' mean for an undifferenced
\* order, the last value for (0,1,0) and (0,1,1), the last change continued
\* for the differenced orders with an autoregressive term
LibraryForecastARIMA(ts, order, forecast_periods) ==
    LET last == ts[Len(ts)]
        prev == ts[Len(ts) - 1]
    IN  [i \in 1..forecast_periods |->
            IF order[2] = 0 THEN Mean(ts)
            ELSE IF order[1] = 0 THEN last
            ELSE last + i * (last - prev)]

\* the half width of get_forecast(steps).conf_int(): 1.96 standard errors,
\* growing with the square root of the step for a differenced order
LibraryHalfWidth(ts, fitted, order, i) ==
    LET sigma == StdDev([k \in 1..Len(ts) |-> ts[k] - fitted[k]], 0)
    IN  IF order[2] = 0 THEN (Z95 * sigma) \div Scale
        ELSE (Z95 * sigma * SqrtOf(i)) \div (Scale * Scale)

----------------------------------------------------------------------------
(* Model selection by AIC, as both searches do it *)

\* best_model = None, best_aic = np.inf
NoBest == [index |-> 0, aic |-> 0]

\* fitted_model.aic < best_aic: never true of an AIC that is NaN, true of
\* any other while best_aic is still np.inf
Improves(fit, best) == ~fit.nan /\ (best.index = 0 \/ fit.aic < best.aic)

\* the loop with a fit that raises ending the search: break, not continue
RECURSIVE SelectLoopBreaks(_, _, _)
SelectLoopBreaks(fits, k, best) ==
    IF k > Len(fits) \/ fits[k].raises THEN best
    ELSE IF Improves(fits[k], best)
         THEN SelectLoopBreaks(fits, k + 1, [index |-> k, aic |-> fits[k].aic])
         ELSE SelectLoopBreaks(fits, k + 1, best)

\* the loop with <= for <: the last candidate of the least AIC is kept
RECURSIVE SelectLoopLastOnTie(_, _, _)
SelectLoopLastOnTie(fits, k, best) ==
    IF k > Len(fits) THEN best
    ELSE IF ~fits[k].raises /\ ~fits[k].nan
            /\ (best.index = 0 \/ fits[k].aic <= best.aic)
         THEN SelectLoopLastOnTie(fits, k + 1, [index |-> k, aic |-> fits[k].aic])
         ELSE SelectLoopLastOnTie(fits, k + 1, best)

\* the loop over the candidates from candidate k on: a fit that raises is
\* skipped, a fit whose aic is below best_aic becomes the best
RECURSIVE SelectLoop(_, _, _)
SelectLoop(fits, k, best) ==
    IF k > Len(fits) THEN best
    ELSE IF ~fits[k].raises /\ Improves(fits[k], best)
         THEN SelectLoop(fits, k + 1, [index |-> k, aic |-> fits[k].aic])
         ELSE SelectLoop(fits, k + 1, best)

----------------------------------------------------------------------------
(* 4.2 Exponential smoothing *)

\* models_to_try: the multiplicative trend only for a positive series
\* the half-width growing with the step, as the random walk's does
HalfWidthGrowing(std_error, step) == ConfidenceInterval(std_error, step)

\* 1.96 * std_error, the same at every step of the horizon
HalfWidth(std_error, step) == (Z95 * std_error) \div Scale

\* the menu with the multiplicative shape appended whatever the series
models_to_try_all(ts) == <<"Simple", "Linear Trend", "Exponential Trend">>

models_to_try(ts) ==
    <<"Simple", "Linear Trend">> \o
    (IF AllPositive(ts) THEN <<"Exponential Trend">> ELSE <<>>)

\* fits[k] is what fitting models_to_try(ts)[k] does, run what the selected
\* model does afterwards
enhanced_exponential_smoothing_forecast(ts, forecast_periods, fits, run) ==
    IF Len(ts) < MinPointsES THEN None
    ELSE
      LET best == SelectLoop(fits, 1, NoBest)
      IN  IF best.index = 0 \/ run.raises \/ MetricsRaise(ts) THEN None
          ELSE
            LET best_config == models_to_try(ts)[best.index]
                raw == LibraryForecastES(ts, best_config, forecast_periods)
                forecasts == [i \in DOMAIN raw |-> Floor0(raw[i])]
                fitted_values == LibraryFitted(ts, run.relerr)
                std_error == StdDev([k \in 1..Len(ts) |-> ts[k] - fitted_values[k]], 0)
            IN  [isNone |-> FALSE,
                 method |-> "Exponential Smoothing (" \o best_config \o ")",
                 forecasts |-> forecasts,
                 lower_bounds |-> [i \in DOMAIN raw |->
                                    Floor0(forecasts[i] - HalfWidth(std_error, i))],
                 upper_bounds |-> [i \in DOMAIN raw |->
                                    forecasts[i] + HalfWidth(std_error, i)],
                 fitted_values |-> fitted_values,
                 aic |-> best.aic,
                 mae |-> mean_absolute_error(ts, fitted_values),
                 mape |-> Mape(ts, fitted_values)]

----------------------------------------------------------------------------
(* 4.3 ARIMA *)

orders_to_try ==
    << <<0, 1, 0>>, <<1, 0, 0>>, <<0, 0, 1>>, <<1, 1, 0>>, <<0, 1, 1>>, <<1, 1, 1>> >>

\* f'ARIMA{best_order}'
OrderName(order) ==
    "ARIMA(" \o ToString(order[1]) \o ", " \o ToString(order[2]) \o ", "
             \o ToString(order[3]) \o ")"

\* ts[-len(fitted_values):]
LastPoints(ts, n) == [k \in 1..n |-> ts[Len(ts) - n + k]]

enhanced_arima_forecast(ts, forecast_periods, fits, run) ==
    IF Len(ts) < MinPointsARIMA THEN None
    ELSE
      LET best == SelectLoop(fits, 1, NoBest)
      IN  IF best.index = 0 \/ run.raises \/ MetricsRaise(ts) THEN None
          ELSE
            LET best_order == orders_to_try[best.index]
                raw == LibraryForecastARIMA(ts, best_order, forecast_periods)
                fitted_values == LibraryFitted(ts, run.relerr)
                half(i) == LibraryHalfWidth(ts, fitted_values, best_order, i)
                actual == LastPoints(ts, Len(fitted_values))
            IN  [isNone |-> FALSE,
                 method |-> OrderName(best_order),
                 forecasts |-> [i \in DOMAIN raw |-> Floor0(raw[i])],
                 lower_bounds |-> [i \in DOMAIN raw |-> Floor0(raw[i] - half(i))],
                 upper_bounds |-> [i \in DOMAIN raw |-> raw[i] + half(i)],
                 fitted_values |-> fitted_values,
                 order |-> best_order,
                 aic |-> best.aic,
                 mae |-> mean_absolute_error(actual, fitted_values),
                 mape |-> Mape(actual, fitted_values)]

----------------------------------------------------------------------------
(* 4.5 Linear-regression fallback *)

\* lr.fit(X, y) on X = 0, 1, ..., len(ts) - 1 and lr.predict at index x:
\* ordinary least squares; a single sample is fitted by a flat line
LinearPredict(ts, x) ==
    LET n == Len(ts)
        Sx == SumSeq([k \in 1..n |-> k - 1])
        Sxx == SumSeq([k \in 1..n |-> (k - 1) * (k - 1)])
        Sy == SumSeq(ts)
        Sxy == SumSeq([k \in 1..n |-> (k - 1) * ts[k]])
        D == n * Sxx - Sx * Sx
    IN  IF D = 0 THEN Sy \div n
        ELSE (Sy * D + (n * Sxy - Sx * Sy) * (n * x - Sx)) \div (n * D)

\* lr.fit raises for a series without a sample, and for one that holds NaN
FallbackRaises(ts) == Len(ts) = 0 \/ HasNaN(ts)

\* the handler left out: the exception of the regression leaves the engine
FallbackReraises == [result |-> None, raised |-> TRUE]

\* except: return None
FallbackExcept == [result |-> None, raised |-> FALSE]

\* a weight: the fraction num / den
One == [num |-> 1, den |-> 1]

linear_fallback(ts, forecast_periods) ==
    IF FallbackRaises(ts) THEN FallbackExcept.result
    ELSE
      LET n == Len(ts)
          forecasts == [i \in 1..forecast_periods |-> Floor0(LinearPredict(ts, n + i - 1))]
          fitted_values == [k \in 1..n |-> LinearPredict(ts, k - 1)]
          std_error == StdDev([k \in 1..n |-> ts[k] - fitted_values[k]], 0)
      IN  [isNone |-> FALSE,
           method |-> "Linear Trend (Fallback)",
           forecasts |-> forecasts,
           lower_bounds |-> [i \in 1..forecast_periods |->
                              Floor0(forecasts[i] - HalfWidth(std_error, i))],
           upper_bounds |-> [i \in 1..forecast_periods |->
                              forecasts[i] + HalfWidth(std_error, i)],
           fitted_values |-> fitted_values,
           components |-> <<"Linear Regression">>,
           weights |-> <<One>>,
           mae |-> mean_absolute_error(ts, fitted_values),
           mape |-> Mape(ts, fitted_values),
           is_fallback |-> TRUE]

----------------------------------------------------------------------------
(* 4.4 Ensemble combiner *)

\* if result: the threshold left out
SurvivesNoThreshold(r) == ~IsNone(r)

\* if result and result['mape'] <= 200
SurvivesInclusive(r) == ~IsNone(r) /\ r.mape <= MapeLimit

\* if result and result['mape'] < 200
Survives(r) == ~IsNone(r) /\ r.mape < MapeLimit

\* 1 / max(mape, 0.01): the floor a digit too low
RawWeightLowFloor(mape) == (Scale * WScale) \div Max(mape, 1)

\* 1 / max(mape, 0.1), in units of 1 / WScale
RawWeight(mape) == (Scale * WScale) \div Max(mape, MapeFloor)

\* the raw weights used as they are, the division by their sum left out
NormalizeForgotten(w) == [k \in DOMAIN w |-> [num |-> w[k], den |-> WScale]]

\* weights / weights.sum(): each weight as a fraction of the sum
Normalize(w) == [k \in DOMAIN w |-> [num |-> w[k], den |-> SumSeq(w)]]

\* numpy broadcasts a sequence of length 1 over the horizon
Cell(v, i) == IF Len(v) = 1 THEN v[1] ELSE v[i]

\* ensemble += weights[i] * method[field] raises when the shapes differ
BlendRaises(ms, forecast_periods) ==
    \E k \in DOMAIN ms :
        \/ Len(ms[k].forecasts) \notin {1, forecast_periods}
        \/ Len(ms[k].lower_bounds) \notin {1, forecast_periods}
        \/ Len(ms[k].upper_bounds) \notin {1, forecast_periods}

\* the plain average of the methods, the weights left out
BlendPlainAverage(w, vectors, size) ==
    [i \in 1..size |->
        SumSeq([k \in DOMAIN w |-> Cell(vectors[k], i)]) \div Len(w)]

\* the weighted sum over the methods, position by position
Blend(w, vectors, size) ==
    [i \in 1..size |->
        SumSeq([k \in DOMAIN w |-> w[k].num * Cell(vectors[k], i)]) \div w[1].den]

\* the last method with the least mape
RECURSIVE MinByMapeLast(_, _)
MinByMapeLast(ms, best) ==
    IF ms = <<>> THEN best
    ELSE MinByMapeLast(Tail(ms), IF Head(ms).mape <= best.mape THEN Head(ms) ELSE best)

\* min(methods, key=lambda x: x['mape']): the first method with the least mape
RECURSIVE MinByMape(_, _)
MinByMape(ms, best) ==
    IF ms = <<>> THEN best
    ELSE MinByMape(Tail(ms), IF Head(ms).mape < best.mape THEN Head(ms) ELSE best)

\* ", ".join(method_names): another separator
RECURSIVE JoinCommas(_)
JoinCommas(names) ==
    IF names = <<>> THEN ""
    ELSE IF Len(names) = 1 THEN names[1]
    ELSE names[1] \o ", " \o JoinCommas(Tail(names))

\* "+".join(method_names)
RECURSIVE Join(_)
Join(names) ==
    IF names = <<>> THEN ""
    ELSE IF Len(names) = 1 THEN names[1]
    ELSE names[1] \o "+" \o Join(Tail(names))

weighted_ensemble(ms, raw_weights, names, size, forecast_periods) ==
    LET w == Normalize(raw_weights)
        best_method == MinByMape(Tail(ms), Head(ms))
    IN  [isNone |-> FALSE,
         method |-> "Robust Ensemble (" \o Join(names) \o ")",
         forecasts |-> Blend(w, [k \in DOMAIN ms |-> ms[k].forecasts], forecast_periods),
         lower_bounds |-> Blend(w, [k \in DOMAIN ms |-> ms[k].lower_bounds], forecast_periods),
         upper_bounds |-> Blend(w, [k \in DOMAIN ms |-> ms[k].upper_bounds], forecast_periods),
         fitted_values |-> Blend(w, [k \in DOMAIN ms |-> ms[k].fitted_values], size),
         components |-> [k \in DOMAIN ms |-> ms[k].method],
         weights |-> w,
         mae |-> best_method.mae,
         mape |-> best_method.mape,
         ensemble_quality |-> Len(ms),
         is_fallback |-> FALSE]

----------------------------------------------------------------------------
(* Inputs *)

\* the observations of a series of up to 3 points, and of a longer one
ShortValues == {0, 1, 7, 14}
LongValues == {0, 1, 7}

\* a series of n points that starts at first, stays at level and ends at last
Plateau(n, first, level, last) ==
    [k \in 1..n |-> IF k = 1 THEN first ELSE IF k = n THEN last ELSE level]

\* the series a call may be given, in Scale units: every series of up to 3
\* points over ShortValues, every series of 4 points over LongValues, and
\* the longer series over LongValues that stay level between their ends
SeriesInputs ==
    UNION {[1..n -> {v * Scale : v \in ShortValues}] : n \in 0..3} \cup
    [1..4 -> {v * Scale : v \in LongValues}] \cup
    {Plateau(n, a * Scale, b * Scale, c * Scale) :
        n \in 5..MaxLen, a \in LongValues, b \in LongValues, c \in LongValues}

\* the series with one missing observation among equal ones
NaNInputs ==
    UNION {{[k \in 1..n |-> IF k = j THEN NaN ELSE v * Scale] :
               j \in 1..n, v \in {0, 7}} : n \in 1..MaxLen}

\* the candidates of the search whose fit returns, the others raise; of
\* those that return, the candidates in nans have an AIC that is NaN and the
\* candidates in warns did not converge: statsmodels warns (the warning is
\* silenced by warnings.filterwarnings('ignore')) and returns the fit;
\* aic[k] is the AIC of candidate k when it is a number
FitsOf(n, returned, nans, warns, aic) ==
    [k \in 1..n |->
        IF k \notin returned
        THEN [raises |-> TRUE, nan |-> FALSE, converged |-> FALSE, aic |-> 0]
        ELSE [raises |-> FALSE, nan |-> k \in nans, converged |-> k \notin warns,
              aic |-> IF k \in nans THEN 0 ELSE aic[k]]]

ESFitChoices(ts) ==
    LET n == Len(models_to_try(ts))
    IN  {FitsOf(n, c, {}, {}, <<20, 10, 10>>) : c \in SUBSET (1..n)} \cup
        {FitsOf(n, c, {2}, {}, <<20, 10, 10>>) : c \in {{2}, {1, 2}}}

ArimaFitChoices ==
    LET n == Len(orders_to_try)
        aic == <<20, 10, 10, 20, 20, 10>>
    IN  {FitsOf(n, c, {}, {}, aic) : c \in {{}, {4, 5}, 1..n}} \cup
        {FitsOf(n, 1..n, {2, 3, 6}, {}, aic), FitsOf(n, 1..n, {}, {2}, aic)}

\* no model is selected: nothing is asked of statsmodels after the search
NotRun == [raises |-> FALSE, relerr |-> 0]

\* statsmodels is not called
NotCalled == [fits |-> <<>>, run |-> NotRun]

\* what statsmodels does in a search: the fits of the candidates and, when
\* one of them is selected, the run of the selected model
LibraryChoices(fit_choices) ==
    {[fits |-> f, run |-> r] :
        f \in fit_choices, r \in LibraryRuns} \cup
    {[fits |-> f, run |-> NotRun] : f \in fit_choices}

\* the search has a selected model exactly when the model is run
RunsTheSelected(lib) ==
    SelectLoop(lib.fits, 1, NoBest).index # 0 \/ lib.run = NotRun

ESLibraryChoices(ts) ==
    IF Len(ts) < MinPointsES THEN {NotCalled}
    ELSE {lib \in LibraryChoices(ESFitChoices(ts)) : RunsTheSelected(lib)}

ArimaLibraryChoices(ts) ==
    IF Len(ts) < MinPointsARIMA THEN {NotCalled}
    ELSE {lib \in LibraryChoices(ArimaFitChoices) : RunsTheSelected(lib)}

----------------------------------------------------------------------------
(* The real-time job store: save_realtime_data *)

\* a job as fetch_muse_job_data builds it; a title or a company that is
\* missing reads as ''
Job(title, company) == [isDict |-> TRUE, title |-> title, company |-> company]

\* an entry of job_data that is not a dict: job.get raises
NotAJob == [isDict |-> FALSE]

\* f"{job.get('title', '')}_{job.get('company', '')}"
JobId(job) == job.title \o "_" \o job.company

\* job['timestamp'] = timestamp; the value of the clock is not modelled
Stamped(job) ==
    [isDict |-> TRUE, title |-> job.title, company |-> job.company,
     timestamp |-> "now"]

\* a call of save_realtime_data and the value it returned
Call(occupation_title, job_data, returned) ==
    [called |-> TRUE, occupation_title |-> occupation_title,
     job_data |-> job_data, returned |-> returned]

\* no call
NoSave == [called |-> FALSE, occupation_title |-> "", job_data |-> <<>>, returned |-> 0]

\* json.load of the file, {} when there is none
NoData == [occupation \in {} |-> <<>>]

\* existing_data[occupation_title], [] when the key is new
JobsOf(data, occupation_title) ==
    IF occupation_title \in DOMAIN data THEN data[occupation_title] ELSE <<>>

\* the identifiers of the jobs already stored
ExistingJobIds(jobs) == {JobId(jobs[k]) : k \in DOMAIN jobs}

\* the set of seen identifiers left as it was: a batch is not deduplicated
\* against itself
SeenForgotten(existing_job_ids, job_id) == existing_job_ids

\* existing_job_ids.add(job_id)
Seen(existing_job_ids, job_id) == existing_job_ids \cup {job_id}

\* the loop over job_data from entry k on: a job is appended to new_jobs
\* when its identifier is not among existing_job_ids
RECURSIVE AddNewJobs(_, _, _, _)
AddNewJobs(job_data, k, existing_job_ids, new_jobs) ==
    IF k > Len(job_data) THEN new_jobs
    ELSE IF JobId(job_data[k]) \notin existing_job_ids
         THEN AddNewJobs(job_data, k + 1,
                         Seen(existing_job_ids, JobId(job_data[k])),
                         Append(new_jobs, Stamped(job_data[k])))
         ELSE AddNewJobs(job_data, k + 1, existing_job_ids, new_jobs)

\* the loop raises on an entry that has no get
SaveRaises(job_data) == \E k \in DOMAIN job_data : ~job_data[k].isDict

\* save_realtime_data(occupation_title, job_data) on the file's content
\* data: the content written back and the value returned; an exception
\* writes nothing and returns 0
save_realtime_data(data, occupation_title, job_data) ==
    IF SaveRaises(job_data) THEN [data |-> data, returned |-> 0]
    ELSE
      LET existing == JobsOf(data, occupation_title)
          new_jobs == AddNewJobs(job_data, 1, ExistingJobIds(existing), <<>>)
      IN  [data |-> [o \in DOMAIN data \cup {occupation_title} |->
                        IF o = occupation_title THEN existing \o new_jobs
                                                ELSE data[o]],
           returned |-> Len(new_jobs)]

----------------------------------------------------------------------------
(* The forecast route: generate_forecast and its cache *)

\* CareerForecaster.__init__: self.forecast_cache = {}
EmptyCache == [cache_key \in {} |-> None]

\* str(include_realtime) inside the f-string
BoolText(b) == IF b THEN "True" ELSE "False"

\* f"{occupation_title}_{include_realtime}"
CacheKey(occupation_title, include_realtime) ==
    occupation_title \o "_" \o BoolText(include_realtime)

\* realtime_jobs[:10]
FirstTen(jobs) == SubSeq(jobs, 1, IF Len(jobs) < 10 THEN Len(jobs) ELSE 10)

\* what forecast_occupation does for the route. outcome is what the
\* dataset and the engine give: "raises", "none" (no dataset, unknown
\* title, fewer than 3 years, no forecast) or "forecast"; realtime_jobs is
\* what fetch_muse_job_data returns when it is asked. The jobs are fetched
\* and saved only after the forecast is there.
forecast_occupation(data, occupation_title, include_realtime, outcome, realtime_jobs) ==
    IF outcome = "raises" THEN [raises |-> TRUE, result |-> None, data |-> data,
                                fetched |-> FALSE, saved |-> NoSave]
    ELSE IF outcome = "none" THEN [raises |-> FALSE, result |-> None, data |-> data,
                                   fetched |-> FALSE, saved |-> NoSave]
    ELSE
      LET saving == include_realtime /\ realtime_jobs # <<>>
          realtime_data == IF saving THEN FirstTen(realtime_jobs) ELSE <<>>
          done == save_realtime_data(data, occupation_title, realtime_jobs)
      IN  [raises |-> FALSE,
           result |-> [isNone |-> FALSE,
                       occupation_title |-> occupation_title,
                       realtime_jobs_count |-> Len(realtime_data)],
           data |-> IF saving THEN done.data ELSE data,
           fetched |-> include_realtime,
           saved |-> IF saving
                     THEN Call(occupation_title, realtime_jobs, done.returned)
                     ELSE NoSave]

\* the result cached whatever it is
StoredAlways(r) == TRUE

\* if not result: ... 404, before the cache is written
Stored(r) == ~IsNone(r)

\* a response of the route; computed and fetched record whether
\* forecast_occupation and fetch_muse_job_data were called for it
Response(status, cached, data, computed, fetched) ==
    [status |-> status, success |-> status = 200, cached |-> cached,
     data |-> data, computed |-> computed, fetched |-> fetched]

\* the route on a request: the cache and the store after it, the call of
\* save_realtime_data it made, and the response. A request without a JSON
\* object raises at data.get.
generate_forecast(cache, data, req, outcome, realtime_jobs) ==
    IF ~req.has_json
    THEN [cache |-> cache, data |-> data, saved |-> NoSave,
          response |-> Response(500, FALSE, None, FALSE, FALSE)]
    ELSE IF req.occupation_title = ""
    THEN [cache |-> cache, data |-> data, saved |-> NoSave,
          response |-> Response(400, FALSE, None, FALSE, FALSE)]
    ELSE
      LET cache_key == CacheKey(req.occupation_title, req.include_realtime)
      IN  IF cache_key \in DOMAIN cache
          THEN [cache |-> cache, data |-> data, saved |-> NoSave,
                response |-> Response(200, TRUE, cache[cache_key], FALSE, FALSE)]
          ELSE
            LET fo == forecast_occupation(data, req.occupation_title,
                                          req.include_realtime, outcome, realtime_jobs)
            IN  IF fo.raises
                THEN [cache |-> cache, data |-> fo.data, saved |-> fo.saved,
                      response |-> Response(500, FALSE, None, TRUE, fo.fetched)]
                ELSE IF ~Stored(fo.result)
                THEN [cache |-> cache, data |-> fo.data, saved |-> fo.saved,
                      response |-> Response(404, FALSE, None, TRUE, fo.fetched)]
                ELSE [cache |-> [k \in DOMAIN cache \cup {cache_key} |->
                                    IF k = cache_key THEN fo.result ELSE cache[k]],
                      data |-> fo.data, saved |-> fo.saved,
                      response |-> Response(200, FALSE, fo.result, TRUE, fo.fetched)]

\* the inputs of the service
MaxBatch == 2

Occupations == {"nurse", "welder"}

\* three jobs of two identifiers: the last two differ and share RN__Acme
Jobs == {Job("RN", "Acme"), Job("RN_", "Acme"), Job("RN", "_Acme")}

\* the batches of at most MaxBatch entries, a job twice or an entry that is
\* not a dict among them
Batches ==
    UNION {[1..n -> Jobs \cup {NotAJob}] : n \in 0..MaxBatch}

\* what the job board returns for a title
FetchedBatches == {<<>>, <<Job("RN", "Acme")>>, <<Job("RN", "Acme"), Job("RN", "Acme")>>}

Requests ==
    [has_json : BOOLEAN, occupation_title : Occupations \cup {""},
     include_realtime : BOOLEAN]

----------------------------------------------------------------------------
(* State *)

VARIABLES
    pc,                \* where the call stands: idle, rw, es, arima, combine, done
    caller,            \* who called the engine: direct, or forecast_occupation
    ts,                \* the series
    forecast_periods,  \* the horizon
    rw_result,         \* lines 293, 299, 305: what each estimator returned
    es_result,
    arima_result,
    methods,           \* the surviving results, in the order they were appended
    weights,           \* their raw weights
    method_names,      \* their short codes
    result,            \* what robust_ensemble_forecast returns
    invoked,           \* the estimations run in this call
    raised,            \* an exception left robust_ensemble_forecast
    occupation_forecast, \* what forecast_occupation returns
    es_library,        \* what statsmodels did in this call's two searches
    arima_library,
    previous,          \* when this call repeats the one before: what that
                       \* call was given by statsmodels, and what it returned
    forecast_cache,    \* forecaster.forecast_cache
    realtime_data,     \* the content of REALTIME_DATA_FILE
    request,           \* the last request of the forecast route
    response,          \* and the response to it
    saved              \* the last call of save_realtime_data and its value

engine_vars == <<pc, caller, ts, forecast_periods, rw_result, es_result,
                 arima_result, methods, weights, method_names, result, invoked,
                 raised, occupation_forecast, es_library, arima_library, previous>>

service_vars == <<forecast_cache, realtime_data, request, response, saved>>

vars == <<engine_vars, service_vars>>

\* no request yet, no response yet, no call yet
NoRequest == [has_json |-> FALSE, occupation_title |-> "", include_realtime |-> FALSE]

NoResponse == Response(0, FALSE, None, FALSE, FALSE)

\* this call repeats no call
NoPrevious == [repeat |-> FALSE]

\* the three lists kept across calls, as a module-level or default-argument
\* list would be
LocalsLeftOver ==
    [methods |-> methods, weights |-> weights, method_names |-> method_names]

\* methods = [], weights = [], method_names = []: made anew by every call
FreshLocals == [methods |-> <<>>, weights |-> <<>>, method_names |-> <<>>]

Init ==
    /\ pc = "idle"
    /\ caller = "none"
    /\ ts = <<>>
    /\ forecast_periods = 0
    /\ rw_result = None
    /\ es_result = None
    /\ arima_result = None
    /\ methods = <<>>
    /\ weights = <<>>
    /\ method_names = <<>>
    /\ result = None
    /\ invoked = {}
    /\ raised = FALSE
    /\ occupation_forecast = None
    /\ es_library = NotCalled
    /\ arima_library = NotCalled
    /\ previous = NoPrevious
    /\ forecast_cache = EmptyCache
    /\ realtime_data = NoData
    /\ request = NoRequest
    /\ response = NoResponse
    /\ saved = NoSave

\* the locals of a call that has just begun
Begin(series, periods, who) ==
    /\ ts' = series
    /\ forecast_periods' = periods
    /\ caller' = who
    /\ rw_result' = None
    /\ es_result' = None
    /\ arima_result' = None
    /\ methods' = FreshLocals.methods
    /\ weights' = FreshLocals.weights
    /\ method_names' = FreshLocals.method_names
    /\ result' = None
    /\ invoked' = {}
    /\ raised' = FALSE
    /\ occupation_forecast' = None
    /\ es_library' = NotCalled
    /\ arima_library' = NotCalled

\* what forecast_occupation makes of the engine's answer: None for no
\* answer, else the forecast it reports
OccupationResult(emp_forecast) ==
    IF IsNone(emp_forecast) THEN None
    ELSE [isNone |-> FALSE,
          employment_forecasts |-> emp_forecast.forecasts,
          employment_lower_bounds |-> emp_forecast.lower_bounds,
          employment_upper_bounds |-> emp_forecast.upper_bounds,
          employment_method |-> emp_forecast.method,
          employment_accuracy_mape |-> emp_forecast.mape,
          employment_mae |-> emp_forecast.mae]

\* the engine returns answer to its caller, or raises
Deliver(answer, raises) ==
    /\ result' = answer
    /\ raised' = raises
    /\ occupation_forecast' =
          IF caller = "forecast_occupation" /\ ~raises THEN OccupationResult(answer)
                                                       ELSE None

\* a direct call robust_ensemble_forecast(ts, forecast_periods)
CallEngine ==
    /\ pc = "idle"
    /\ \E series \in SeriesInputs \cup NaNInputs, periods \in 1..MaxH :
          Begin(series, periods, "direct")
    /\ previous' = NoPrevious
    /\ pc' = "rw"
    /\ UNCHANGED service_vars

\* forecast_occupation: a series of fewer than 3 points returns None before
\* the engine is called; otherwise robust_ensemble_forecast(emp_ts)
ForecastOccupation ==
    /\ pc = "idle"
    /\ \E series \in SeriesInputs \cup NaNInputs :
          /\ Begin(series, DefaultPeriods, "forecast_occupation")
          /\ pc' = IF Len(series) < MinPointsOccupation THEN "done" ELSE "rw"
    /\ previous' = NoPrevious
    /\ UNCHANGED service_vars

\* the same call made a second time, with the same series and horizon:
\* statsmodels, which fits deterministically, does again what it did
CallAgain ==
    /\ pc = "done"
    /\ ~previous.repeat
    /\ Begin(ts, forecast_periods, caller)
    /\ previous' = [repeat |-> TRUE, es_library |-> es_library,
                    arima_library |-> arima_library, result |-> result,
                    raised |-> raised]
    /\ pc' = IF caller = "forecast_occupation" /\ Len(ts) < MinPointsOccupation
             THEN "done" ELSE "rw"
    /\ UNCHANGED service_vars

\* methods.append, weights.append, method_names.append of a survivor
Keep(r, code) ==
    /\ methods' = IF Survives(r) THEN Append(methods, r) ELSE methods
    /\ weights' = IF Survives(r) THEN Append(weights, RawWeight(r.mape)) ELSE weights
    /\ method_names' = IF Survives(r) THEN Append(method_names, code) ELSE method_names

RandomWalk ==
    /\ pc = "rw"
    /\ LET r == enhanced_random_walk_forecast(ts, forecast_periods)
       IN  /\ rw_result' = r
           /\ Keep(r, "RW")
    /\ invoked' = IF Len(ts) < MinPointsRW THEN invoked ELSE invoked \cup {"RW"}
    /\ pc' = "es"
    /\ UNCHANGED <<caller, ts, forecast_periods, es_result, arima_result, result, raised,
                   occupation_forecast, es_library, arima_library, previous>>
    /\ UNCHANGED service_vars

ExponentialSmoothing ==
    /\ pc = "es"
    /\ \E lib \in ESLibraryChoices(ts) :
          LET r == enhanced_exponential_smoothing_forecast(ts, forecast_periods,
                                                           lib.fits, lib.run)
          IN  /\ previous.repeat => lib = previous.es_library
              /\ es_library' = lib
              /\ es_result' = r
              /\ Keep(r, "ES")
    /\ invoked' = IF Len(ts) < MinPointsES THEN invoked ELSE invoked \cup {"ES"}
    /\ pc' = "arima"
    /\ UNCHANGED <<caller, ts, forecast_periods, rw_result, arima_result, result, raised,
                   occupation_forecast, arima_library, previous>>
    /\ UNCHANGED service_vars

Arima ==
    /\ pc = "arima"
    /\ \E lib \in ArimaLibraryChoices(ts) :
          LET r == enhanced_arima_forecast(ts, forecast_periods, lib.fits, lib.run)
          IN  /\ previous.repeat => lib = previous.arima_library
              /\ arima_library' = lib
              /\ arima_result' = r
              /\ Keep(r, "ARIMA")
    /\ invoked' = IF Len(ts) < MinPointsARIMA THEN invoked ELSE invoked \cup {"ARIMA"}
    /\ pc' = "combine"
    /\ UNCHANGED <<caller, ts, forecast_periods, rw_result, es_result, result, raised,
                   occupation_forecast, es_library, previous>>
    /\ UNCHANGED service_vars

\* if not methods: the linear regression, or None if it raises
LinearFallback ==
    /\ pc = "combine"
    /\ methods = <<>>
    /\ Deliver(linear_fallback(ts, forecast_periods),
               FallbackRaises(ts) /\ FallbackExcept.raised)
    /\ invoked' = invoked \cup {"LR"}
    /\ pc' = "done"
    /\ UNCHANGED <<caller, ts, forecast_periods, rw_result, es_result, arima_result,
                   methods, weights, method_names, es_library, arima_library, previous>>
    /\ UNCHANGED service_vars

\* the weighted ensemble; nothing catches an exception of the blending
WeightedEnsemble ==
    /\ pc = "combine"
    /\ methods # <<>>
    /\ IF BlendRaises(methods, forecast_periods)
       THEN Deliver(None, TRUE)
       ELSE Deliver(weighted_ensemble(methods, weights, method_names, Len(ts),
                                      forecast_periods), FALSE)
    /\ pc' = "done"
    /\ UNCHANGED <<caller, ts, forecast_periods, rw_result, es_result, arima_result,
                   methods, weights, method_names, invoked, es_library, arima_library,
                   previous>>
    /\ UNCHANGED service_vars

\* the call has returned and its frame is gone
Return ==
    /\ pc = "done"
    /\ pc' = "idle"
    /\ caller' = "none"
    /\ ts' = <<>>
    /\ forecast_periods' = 0
    /\ rw_result' = None
    /\ es_result' = None
    /\ arima_result' = None
    /\ methods' = <<>>
    /\ weights' = <<>>
    /\ method_names' = <<>>
    /\ result' = None
    /\ invoked' = {}
    /\ raised' = FALSE
    /\ occupation_forecast' = None
    /\ es_library' = NotCalled
    /\ arima_library' = NotCalled
    /\ previous' = NoPrevious
    /\ UNCHANGED service_vars

Next ==
    \/ CallEngine
    \/ ForecastOccupation
    \/ CallAgain
    \/ RandomWalk
    \/ ExponentialSmoothing
    \/ Arima
    \/ LinearFallback
    \/ WeightedEnsemble
    \/ Return

Spec == Init /\ [][Next]_vars

\* a request POST /api/career-forecast/forecast, served to its response
GenerateForecast ==
    /\ \E req \in Requests, outcome \in {"raises", "none", "forecast"},
          realtime_jobs \in FetchedBatches :
          LET served == generate_forecast(forecast_cache, realtime_data, req,
                                          outcome, realtime_jobs)
          IN  /\ request' = req
              /\ forecast_cache' = served.cache
              /\ realtime_data' = served.data
              /\ response' = served.response
              /\ saved' = IF served.saved.called THEN served.saved ELSE saved
    /\ UNCHANGED engine_vars

\* the requests of the forecast route, one after the other
CacheSpec == Init /\ [][GenerateForecast]_vars

\* a call save_realtime_data(occupation_title, job_data)
SaveRealtimeData ==
    /\ \E occupation_title \in Occupations, job_data \in Batches :
          LET done == save_realtime_data(realtime_data, occupation_title, job_data)
          IN  /\ realtime_data' = done.data
              /\ saved' = Call(occupation_title, job_data, done.returned)
    /\ UNCHANGED <<forecast_cache, request, response>>
    /\ UNCHANGED engine_vars

\* the calls of save_realtime_data, one after the other
StoreSpec == Init /\ [][SaveRealtimeData]_vars

----------------------------------------------------------------------------
(* Properties *)

\* robust_ensemble_forecast was called and has returned
EngineReturned ==
    /\ pc = "done"
    /\ ~(caller = "forecast_occupation" /\ Len(ts) < 3)

\* every entry of a sequence is >= 0
NonNegative(v) == \A i \in DOMAIN v : v[i] >= 0

\* the spec's rule 2 of 4.4: a result is discarded when it is null or its
\* mape is 200 or more
Discarded(r) == r.isNone \/ r.mape >= 200 * Scale

\* the results the spec keeps, in the order RW, ES, ARIMA
RECURSIVE KeptOf(_)
KeptOf(rs) ==
    IF rs = <<>> THEN <<>>
    ELSE IF Discarded(Head(rs)) THEN KeptOf(Tail(rs))
    ELSE <<Head(rs)>> \o KeptOf(Tail(rs))

\* the short codes of the results the spec keeps, in the same order
KeptCodes ==
    (IF Discarded(rw_result) THEN <<>> ELSE <<"RW">>) \o
    (IF Discarded(es_result) THEN <<>> ELSE <<"ES">>) \o
    (IF Discarded(arima_result) THEN <<>> ELSE <<"ARIMA">>)

Kept == KeptOf(<<rw_result, es_result, arima_result>>)

\* C1: for a valid series (finite, non-negative values) of at least 3 points
\* and a positive horizon,
\* robust_ensemble_forecast returns a result (no exception, not None) whose
\* forecasts have exactly forecast_periods entries, each >= 0, whatever the
\* three primary estimators did.
C1_ForecastsForEveryValidSeries ==
    (EngineReturned /\ Len(ts) >= 3 /\ ~HasNaN(ts) /\ forecast_periods >= 1) =>
        /\ ~raised
        /\ ~IsNone(result)
        /\ Len(result.forecasts) = forecast_periods
        /\ NonNegative(result.forecasts)

\* C1 witness: the random walk was discarded, exponential smoothing returned
\* nothing, ARIMA survived, and the engine returned a positive forecast.
C1_Witness ==
    /\ EngineReturned
    /\ Len(ts) >= 3
    /\ ~IsNone(rw_result) /\ Discarded(rw_result)
    /\ IsNone(es_result)
    /\ ~Discarded(arima_result)
    /\ ~IsNone(result)
    /\ Len(result.forecasts) = forecast_periods
    /\ \E i \in DOMAIN result.forecasts : result.forecasts[i] > 0

\* C2 (the claim as stated, refuted by the code): in every result the engine
\* returns, lower_bounds[i] <= forecasts[i] <= upper_bounds[i] at every
\* position i.
C2_ForecastWithinBounds ==
    (EngineReturned /\ ~IsNone(result)) =>
        \A i \in DOMAIN result.forecasts :
            /\ result.lower_bounds[i] <= result.forecasts[i]
            /\ result.forecasts[i] <= result.upper_bounds[i]

\* C3 (the claim as stated, refuted by the code): every result has
\* forecasts, lower_bounds and upper_bounds of length forecast_periods, and
\* every entry of the three is >= 0.
C3_LengthsAndSigns ==
    (EngineReturned /\ ~IsNone(result)) =>
        /\ Len(result.forecasts) = forecast_periods
        /\ Len(result.lower_bounds) = forecast_periods
        /\ Len(result.upper_bounds) = forecast_periods
        /\ NonNegative(result.forecasts)
        /\ NonNegative(result.lower_bounds)
        /\ NonNegative(result.upper_bounds)

\* C4 (the claim as stated, refuted by the code): for a series of fewer
\* than 3 points, such as the 2-point series of the scenario, the returned
\* value is None and no estimation, the linear regression included, was run
\* on it.  (Stated for the series of 1 or 2 finite values.)
C4_ShortSeriesUnavailable ==
    (pc = "done" /\ Len(ts) \in {1, 2} /\ ~HasNaN(ts)) =>
        (IsNone(result) /\ invoked = {})

\* C4 (amended): the 3-point minimum is the caller's. forecast_occupation
\* returns None for a series of fewer than 3 points at once, without calling
\* robust_ensemble_forecast, so that no estimation is run; a direct call of
\* robust_ensemble_forecast on such a series skips the three primary
\* estimators, runs the linear regression, and returns its result, which is
\* None only when the regression raises (the empty series, a missing value).
C4_ShortSeriesGuardIsTheCallers ==
    /\ (caller = "forecast_occupation" /\ Len(ts) < 3) =>
          (pc = "done" /\ IsNone(result) /\ invoked = {})
    /\ (caller = "direct" /\ pc = "done" /\ Len(ts) < 3) =>
          /\ invoked = {"LR"}
          /\ IsNone(result) <=> (Len(ts) = 0 \/ HasNaN(ts))
          /\ ~IsNone(result) => result.is_fallback

\* C4 witness: forecast_occupation has returned None for a 2-point series.
C4_Witness ==
    /\ pc = "done"
    /\ caller = "forecast_occupation"
    /\ Len(ts) = 2
    /\ IsNone(result)
    /\ invoked = {}

\* C5: a returned result has is_fallback = TRUE exactly when none of the
\* three primary results survived (each was null or had mape >= 200); when
\* one survives the engine returns an ensemble with is_fallback = FALSE and
\* the linear regression is not run.
C5_FallbackIffNoSurvivor ==
    EngineReturned =>
        /\ ~IsNone(result) => (result.is_fallback <=> Kept = <<>>)
        /\ Kept # <<>> =>
              /\ ~IsNone(result)
              /\ ~result.is_fallback
              /\ result.method = "Robust Ensemble (" \o Join(KeptCodes) \o ")"
              /\ "LR" \notin invoked
        /\ Kept = <<>> => "LR" \in invoked

\* C5 witness: all three estimators returned a result, each was discarded,
\* and the engine returned the fallback.
C5_Witness ==
    /\ EngineReturned
    /\ ~IsNone(rw_result) /\ ~IsNone(es_result) /\ ~IsNone(arima_result)
    /\ ~IsNone(result)
    /\ result.is_fallback

\* C6: a primary result is left out of the ensemble exactly when it is null
\* or its mape is >= 200, and a result left out appears in none of
\* components, weights, the method label and the blended sequences: methods,
\* method_names and weights hold the kept results only, in the order RW, ES,
\* ARIMA, and the ensemble is built from them alone.
C6_ExcludedExactlyWhenNullOrUnreliable ==
    /\ pc \in {"combine", "done"} /\ ~(caller = "forecast_occupation" /\ Len(ts) < 3) =>
          /\ methods = Kept
          /\ method_names = KeptCodes
          /\ weights = [k \in DOMAIN Kept |-> RawWeight(Kept[k].mape)]
    /\ (EngineReturned /\ Kept # <<>>) =>
          /\ result.components = [k \in DOMAIN Kept |-> Kept[k].method]
          /\ Len(result.weights) = Len(Kept)
          /\ result.method = "Robust Ensemble (" \o Join(KeptCodes) \o ")"
          /\ result.ensemble_quality = Len(Kept)
          /\ \A i \in 1..forecast_periods :
                /\ result.forecasts[i] =
                      SumSeq([k \in DOMAIN Kept |->
                                result.weights[k].num * Kept[k].forecasts[i]])
                          \div result.weights[1].den
                /\ result.lower_bounds[i] =
                      SumSeq([k \in DOMAIN Kept |->
                                result.weights[k].num * Kept[k].lower_bounds[i]])
                          \div result.weights[1].den
                /\ result.upper_bounds[i] =
                      SumSeq([k \in DOMAIN Kept |->
                                result.weights[k].num * Kept[k].upper_bounds[i]])
                          \div result.weights[1].den

\* C6 witness: exponential smoothing came back with mape 199 and was kept,
\* ARIMA came back with mape exactly 200 and was left out of the ensemble.
C6_Witness ==
    /\ EngineReturned
    /\ ~IsNone(es_result) /\ es_result.mape = 199 * Scale
    /\ ~IsNone(arima_result) /\ arima_result.mape = 200 * Scale
    /\ ~IsNone(result)
    /\ ~result.is_fallback
    /\ \E k \in DOMAIN result.components : result.components[k] = es_result.method
    /\ \A k \in DOMAIN result.components : result.components[k] # arima_result.method

\* C7: whatever the three primary estimators do (too short an input, a fit
\* or a forecast that raises, no result, a result of any mape), no exception
\* leaves robust_ensemble_forecast, the weighting and blending included:
\* every surviving result has the shape the blending needs, and the call
\* returns None or a result with the forecast_periods blended entries.
C7_NoExceptionEscapes ==
    /\ ~raised
    /\ pc = "combine" => ~BlendRaises(methods, forecast_periods)
    /\ EngineReturned =>
          \/ IsNone(result) /\ Kept = <<>>
          \/ ~IsNone(result) /\ Len(result.forecasts) = forecast_periods

\* C7 witness: all three results survived, the weighting and blending ran on
\* the three of them, and the call returned.
C7_Witness ==
    /\ EngineReturned
    /\ Len(methods) = 3
    /\ ~raised
    /\ ~IsNone(result)

\* C8: in a returned result every weight is > 0, the weights sum to 1, and
\* there are as many weights as components, which is the number of methods
\* that contributed (1 for the fallback).
C8_WeightsPositiveAndSumToOne ==
    (EngineReturned /\ ~IsNone(result)) =>
        /\ \A k \in DOMAIN result.weights :
              /\ result.weights[k].num > 0
              /\ result.weights[k].den = result.weights[1].den
        /\ SumSeq([k \in DOMAIN result.weights |-> result.weights[k].num])
              = result.weights[1].den
        /\ Len(result.weights) = Len(result.components)
        /\ Len(result.weights) = IF result.is_fallback THEN 1 ELSE Len(Kept)

\* C8 witness: an ensemble of three methods with unequal weights.
C8_Witness ==
    /\ EngineReturned
    /\ ~IsNone(result)
    /\ Len(result.weights) = 3
    /\ result.weights[1].num # result.weights[2].num
    /\ result.weights[2].num # result.weights[3].num

\* a series without variance, and a series that goes up and down in turn
ZeroVariance(s) == \A k \in DOMAIN s : s[k] = s[1]
StrictlyAlternating(s) ==
    \A k \in 2..(Len(s) - 1) :
        \/ s[k] > s[k - 1] /\ s[k] > s[k + 1]
        \/ s[k] < s[k - 1] /\ s[k] < s[k + 1]

\* C9 (the claim as stated, refuted by the code): a strictly alternating or
\* zero-variance series of length 3 yields a non-null result made by the
\* linear regression, with is_fallback = TRUE.
C9_DegenerateSeriesFallsBack ==
    (EngineReturned /\ Len(ts) = 3 /\ ~HasNaN(ts)
        /\ (ZeroVariance(ts) \/ StrictlyAlternating(ts))) =>
        /\ ~IsNone(result)
        /\ result.is_fallback
        /\ result.method = "Linear Trend (Fallback)"

\* C9 (amended): a series of 3 finite values is too short for exponential smoothing
\* and ARIMA only; the random walk runs on it.  The result is never null; it
\* is the linear regression's, with is_fallback = TRUE, exactly when the
\* random walk's mape is >= 200, that is when all three values are positive
\* and |2 ts[1] - ts[0] - ts[2]| >= 12 ts[1] (the alternating 7, 1, 7); a
\* zero-variance series yields "Robust Ensemble (RW)" with is_fallback FALSE.
C9_LengthThreeFallsBackOnlyOnUnreliableRandomWalk ==
    (EngineReturned /\ Len(ts) = 3 /\ ~HasNaN(ts)) =>
        /\ IsNone(es_result) /\ IsNone(arima_result)
        /\ ~IsNone(rw_result)
        /\ ~IsNone(result)
        /\ result.is_fallback <=>
              (AllPositive(ts) /\ Abs(2 * ts[2] - ts[1] - ts[3]) >= 12 * ts[2])
        /\ result.is_fallback => result.method = "Linear Trend (Fallback)"
        /\ ZeroVariance(ts) =>
              (~result.is_fallback /\ result.method = "Robust Ensemble (RW)")

\* C9 witness: a strictly alternating series of length 3 whose random walk
\* is discarded, answered by the linear regression.
C9_Witness ==
    /\ EngineReturned
    /\ Len(ts) = 3
    /\ StrictlyAlternating(ts)
    /\ ~IsNone(rw_result) /\ Discarded(rw_result)
    /\ ~IsNone(result)
    /\ result.is_fallback

\* C10: an ensemble reports the mae and the mape of one single surviving
\* method, the one of lowest mape, the earliest in the order RW, ES, ARIMA
\* when mapes tie; the reported mape is the minimum over the survivors.
C10_ErrorsOfTheSingleBestMethod ==
    (EngineReturned /\ ~IsNone(result) /\ ~result.is_fallback) =>
        \E k \in DOMAIN Kept :
            /\ result.mape = Kept[k].mape
            /\ result.mae = Kept[k].mae
            /\ \A j \in DOMAIN Kept : Kept[k].mape <= Kept[j].mape
            /\ \A j \in 1..(k - 1) : Kept[j].mape > Kept[k].mape

\* C10 witness: the first two survivors tie on the lowest mape and differ in
\* mae, and the ensemble reports the mae of the first.
C10_Witness ==
    /\ EngineReturned
    /\ ~IsNone(result)
    /\ ~result.is_fallback
    /\ Len(Kept) >= 2
    /\ Kept[1].mape = Kept[2].mape
    /\ Kept[1].mae # Kept[2].mae
    /\ \A j \in DOMAIN Kept : Kept[1].mape <= Kept[j].mape
    /\ result.mae = Kept[1].mae

\* C10 second case: the survivor of lowest mape is not the first one, and
\* its mae and mape are the ones reported.
C10_LaterMethodIsBest ==
    /\ EngineReturned
    /\ ~IsNone(result)
    /\ ~result.is_fallback
    /\ Len(Kept) >= 2
    /\ Kept[2].mape < Kept[1].mape
    /\ result.mape = Kept[2].mape
    /\ result.mae # Kept[1].mae

\* C11: the weight of each surviving method is 1 / max(mape, 0.1) divided
\* by the sum of that quantity over the survivors; so a survivor of smaller
\* mape never has a smaller weight than one of larger mape, and survivors
\* whose mape is <= 0.1 have equal weights.
C11_WeightsInverselyProportionalToMape ==
    (EngineReturned /\ ~IsNone(result) /\ ~result.is_fallback) =>
        /\ Len(result.weights) = Len(Kept)
        /\ \A k \in DOMAIN Kept :
              /\ result.weights[k].num =
                    (Scale * WScale) \div
                        (IF Kept[k].mape > Scale \div 10 THEN Kept[k].mape
                                                         ELSE Scale \div 10)
              /\ result.weights[k].den =
                    SumSeq([j \in DOMAIN Kept |-> result.weights[j].num])
        /\ \A j, k \in DOMAIN Kept :
              /\ Kept[j].mape < Kept[k].mape =>
                    result.weights[j].num >= result.weights[k].num
              /\ (Kept[j].mape <= Scale \div 10 /\ Kept[k].mape <= Scale \div 10) =>
                    result.weights[j].num = result.weights[k].num

\* C11 witness: two survivors of mape 0 (below the floor) with equal
\* weights, and a third of larger mape with a strictly smaller weight.
C11_Witness ==
    /\ EngineReturned
    /\ ~IsNone(result)
    /\ ~result.is_fallback
    /\ Len(Kept) = 3
    /\ \E i, j, k \in DOMAIN Kept :
          /\ i # j
          /\ Kept[i].mape = 0 /\ Kept[j].mape = 0
          /\ result.weights[i].num = result.weights[j].num
          /\ Kept[k].mape > Scale \div 10
          /\ result.weights[k].num < result.weights[i].num

\* C12: for a series that contains a value <= 0, every method that returns
\* a result (random walk, exponential smoothing, ARIMA, the linear
\* regression) reports mape exactly 50.0, and the result the engine returns
\* has mape 50.0.
C12_PenaltyMapeForNonPositiveSeries ==
    (EngineReturned /\ ~HasNaN(ts) /\ \E k \in DOMAIN ts : ts[k] <= 0) =>
        /\ ~IsNone(rw_result) => rw_result.mape = 50 * Scale
        /\ ~IsNone(es_result) => es_result.mape = 50 * Scale
        /\ ~IsNone(arima_result) => arima_result.mape = 50 * Scale
        /\ ~IsNone(result)
        /\ result.mape = 50 * Scale

\* C12 witness: a series with a zero entry on which all three estimators
\* returned a result, each with the penalty, and so did the engine.
C12_Witness ==
    /\ EngineReturned
    /\ \E k \in DOMAIN ts : ts[k] = 0
    /\ \E k \in DOMAIN ts : ts[k] > 0
    /\ ~IsNone(rw_result) /\ ~IsNone(es_result) /\ ~IsNone(arima_result)
    /\ arima_result.mape = 50 * Scale
    /\ ~IsNone(result)
    /\ result.mape = 50 * Scale

\* C12 second case: a series with a zero entry too short for the three
\* estimators, answered by the linear regression with the penalty.
C12_FallbackPenalty ==
    /\ EngineReturned
    /\ \E k \in DOMAIN ts : ts[k] = 0
    /\ ~IsNone(result)
    /\ result.is_fallback
    /\ result.mape = 50 * Scale

C14_RandomWalkIntervalNeverNarrows ==
    ~IsNone(rw_result) =>
        \A i \in 1..(Len(rw_result.upper_bounds) - 1) :
            rw_result.upper_bounds[i + 1] - rw_result.lower_bounds[i + 1]
                >= rw_result.upper_bounds[i] - rw_result.lower_bounds[i]

\* C15: in an ensemble result, method is "Robust Ensemble (" followed by the
\* short codes of the surviving methods joined by "+" and by ")", the codes
\* in the fixed order RW, ES, ARIMA; components lists the survivors' full
\* names in that order, each at the position of its weight; and is_fallback
\* is FALSE.
C15_LabelComponentsAndFlag ==
    (EngineReturned /\ Kept # <<>>) =>
        LET rw == ~Discarded(rw_result)
            es == ~Discarded(es_result)
            arima == ~Discarded(arima_result)
        IN  /\ ~IsNone(result)
            /\ result.is_fallback = FALSE
            /\ result.method =
                  "Robust Ensemble (" \o
                  (IF rw THEN "RW" ELSE "") \o
                  (IF rw /\ (es \/ arima) THEN "+" ELSE "") \o
                  (IF es THEN "ES" ELSE "") \o
                  (IF es /\ arima THEN "+" ELSE "") \o
                  (IF arima THEN "ARIMA" ELSE "") \o ")"
            /\ result.components =
                  (IF rw THEN <<"Random Walk with Drift">> ELSE <<>>) \o
                  (IF es THEN <<es_result.method>> ELSE <<>>) \o
                  (IF arima THEN <<arima_result.method>> ELSE <<>>)
            /\ Len(result.weights) = Len(result.components)
            /\ \A k \in DOMAIN Kept :
                  /\ result.components[k] = Kept[k].method
                  /\ result.weights[k].num =
                        (Scale * WScale) \div
                            (IF Kept[k].mape > Scale \div 10 THEN Kept[k].mape
                                                             ELSE Scale \div 10)

\* C15 witness: exponential smoothing returned a result that was discarded,
\* and the ensemble is labelled RW+ARIMA, with the two full names and two
\* different weights in that order.
C15_Witness ==
    /\ EngineReturned
    /\ ~IsNone(es_result) /\ Discarded(es_result)
    /\ ~IsNone(result)
    /\ result.method = "Robust Ensemble (RW+ARIMA)"
    /\ result.components = <<"Random Walk with Drift", arima_result.method>>
    /\ result.weights[1].num # result.weights[2].num
    /\ ~result.is_fallback

\* the blended value v is the weighted sum of the survivors' values at a
\* position, to the model's resolution, and lies between their least and
\* their greatest
WeightedSumOf(v, w, values) ==
    LET total == SumSeq([k \in DOMAIN values |-> w[k].num * values[k]])
        den == SumSeq([k \in DOMAIN w |-> w[k].num])
    IN  /\ den * v <= total
        /\ total < den * (v + 1)
        /\ \E k \in DOMAIN values : values[k] <= v
        /\ \E k \in DOMAIN values : v <= values[k]

\* C16: in an ensemble result, forecasts[i], lower_bounds[i] and
\* upper_bounds[i] are each the sum over the surviving methods of the
\* method's weight times the method's value at position i, and so lie
\* between the least and the greatest of the survivors' values there.
C16_BlendIsTheWeightedSum ==
    (EngineReturned /\ Kept # <<>>) =>
        /\ ~IsNone(result)
        /\ Len(result.weights) = Len(Kept)
        /\ \A i \in 1..forecast_periods :
              /\ WeightedSumOf(result.forecasts[i], result.weights,
                               [k \in DOMAIN Kept |-> Kept[k].forecasts[i]])
              /\ WeightedSumOf(result.lower_bounds[i], result.weights,
                               [k \in DOMAIN Kept |-> Kept[k].lower_bounds[i]])
              /\ WeightedSumOf(result.upper_bounds[i], result.weights,
                               [k \in DOMAIN Kept |-> Kept[k].upper_bounds[i]])

\* C16 witness: two survivors of unequal weights whose forecasts differ at
\* a position, the blended forecast strictly between the two and nearer to
\* the one of greater weight.
C16_Witness ==
    /\ EngineReturned
    /\ ~IsNone(result)
    /\ Len(Kept) = 2
    /\ result.weights[1].num > result.weights[2].num
    /\ \E i \in 1..forecast_periods :
          /\ Kept[1].forecasts[i] < result.forecasts[i]
          /\ result.forecasts[i] < Kept[2].forecasts[i]
          /\ 2 * result.forecasts[i] < Kept[1].forecasts[i] + Kept[2].forecasts[i]

\* C17: when no primary method survives and the linear regression itself
\* raises, no exception leaves the engine: it returns None, and its caller
\* forecast_occupation then returns no forecast.
C17_FallbackFailureIsNoForecast ==
    /\ (EngineReturned /\ Kept = <<>> /\ (Len(ts) = 0 \/ HasNaN(ts))) =>
          /\ "LR" \in invoked
          /\ ~raised
          /\ IsNone(result)
    /\ (EngineReturned /\ caller = "forecast_occupation") =>
          /\ IsNone(result) => IsNone(occupation_forecast)
          /\ ~IsNone(result) =>
                /\ ~IsNone(occupation_forecast)
                /\ occupation_forecast.employment_forecasts = result.forecasts

\* C17 witness: forecast_occupation called the engine on a series of 3 or
\* more points with a missing value; the three estimators and the linear
\* regression were run, the engine returned None, and so did the caller.
C17_Witness ==
    /\ pc = "done"
    /\ caller = "forecast_occupation"
    /\ Len(ts) >= 5
    /\ HasNaN(ts)
    /\ invoked = {"RW", "ES", "ARIMA", "LR"}
    /\ ~raised
    /\ IsNone(result)
    /\ IsNone(occupation_forecast)

\* C19: the random walk returns no result for fewer than 3 points,
\* exponential smoothing for fewer than 4, ARIMA for fewer than 5, and each
\* guard skips its own method only; so for a series of length 3 a result
\* that is not the fallback is "Robust Ensemble (RW)" with the weights
\* [1.0], and for length 4 no ARIMA is among the components.
C19_EachMethodSkipsOnlyItself ==
    EngineReturned =>
        /\ Len(ts) < 3 => (IsNone(rw_result) /\ "RW" \notin invoked)
        /\ Len(ts) < 4 => (IsNone(es_result) /\ "ES" \notin invoked)
        /\ Len(ts) < 5 => (IsNone(arima_result) /\ "ARIMA" \notin invoked)
        /\ Len(ts) >= 3 => "RW" \in invoked
        /\ Len(ts) >= 4 => "ES" \in invoked
        /\ Len(ts) >= 5 => "ARIMA" \in invoked
        /\ (Len(ts) >= 3 /\ ~HasNaN(ts)) => ~IsNone(rw_result)
        /\ (Len(ts) = 3 /\ ~IsNone(result) /\ ~result.is_fallback) =>
              /\ result.method = "Robust Ensemble (RW)"
              /\ Len(result.weights) = 1
              /\ result.weights[1].num = result.weights[1].den
        /\ (Len(ts) = 4 /\ ~IsNone(result)) =>
              \A k \in DOMAIN result.components :
                  result.components[k] \in
                      {"Random Walk with Drift", "Linear Regression",
                       "Exponential Smoothing (Simple)",
                       "Exponential Smoothing (Linear Trend)",
                       "Exponential Smoothing (Exponential Trend)"}

\* C19 witness: on a series of 4 points ARIMA was skipped while the random
\* walk and exponential smoothing ran and both are in the ensemble.
C19_Witness ==
    /\ EngineReturned
    /\ Len(ts) = 4
    /\ invoked = {"RW", "ES"}
    /\ IsNone(arima_result)
    /\ ~IsNone(result)
    /\ result.method = "Robust Ensemble (RW+ES)"

\* C19 second case: on a series of 3 points only the random walk ran, and
\* the ensemble is the random walk alone with weight 1.
C19_LengthThreeIsRandomWalkAlone ==
    /\ EngineReturned
    /\ Len(ts) = 3
    /\ invoked = {"RW"}
    /\ ~IsNone(result)
    /\ result.method = "Robust Ensemble (RW)"
    /\ result.weights[1].num = result.weights[1].den

\* C20 (the claim as stated, refuted by the code): after the substitution
\* for a zero or undefined standard deviation of the first differences, the
\* random walk's interval is never of zero width: upper_bounds[i] >
\* lower_bounds[i] at every step, for a constant series too.
C20_RandomWalkIntervalNeverEmpty ==
    (~IsNone(rw_result) /\ StdDev(Diff(ts), 1) = 0) =>
        \A i \in DOMAIN rw_result.upper_bounds :
            rw_result.upper_bounds[i] > rw_result.lower_bounds[i]

\* the mean of the first differences of a series: they sum to last - first
DriftOf(s) == (s[Len(s)] - s[1]) \div (Len(s) - 1)

\* the half width the random walk's result shows at step i
RWHalfWidth(i) == rw_result.upper_bounds[i] - (ts[Len(ts)] + DriftOf(ts) * i)

\* C21: in the random walk's result the forecast at the 1-indexed step i is
\* max(last observed value + drift * i, 0), with drift the mean of the first
\* differences, and the interval half width at step i is
\* 1.96 * drift_std * sqrt(i); so the half width does not decrease with i,
\* and the forecasts are monotone in i in the direction of the drift's sign.
C21_RandomWalkForecastAndHalfWidth ==
    ~IsNone(rw_result) =>
        LET last == ts[Len(ts)]
            drift == DriftOf(ts)
            steps == 1..forecast_periods
        IN  /\ Len(rw_result.forecasts) = forecast_periods
            /\ \A i \in steps :
                  /\ rw_result.forecasts[i] =
                        (IF last + drift * i > 0 THEN last + drift * i ELSE 0)
                  /\ RWHalfWidth(i) =
                        (196 * DriftStd(ts) * ISqrt(i * Scale * Scale)) \div (100 * Scale)
                  /\ rw_result.lower_bounds[i] =
                        (IF last + drift * i - RWHalfWidth(i) > 0
                         THEN last + drift * i - RWHalfWidth(i) ELSE 0)
            /\ \A i \in steps, j \in steps :
                  i < j =>
                    /\ RWHalfWidth(i) <= RWHalfWidth(j)
                    /\ drift >= 0 => rw_result.forecasts[i] <= rw_result.forecasts[j]
                    /\ drift <= 0 => rw_result.forecasts[i] >= rw_result.forecasts[j]

\* C21 witness: a 7-step random walk of negative drift whose forecasts fall
\* and reach the floor, with a half width that grows from step to step.
C21_Witness ==
    /\ ~IsNone(rw_result)
    /\ forecast_periods = 7
    /\ DriftOf(ts) < 0
    /\ rw_result.forecasts[1] > rw_result.forecasts[2]
    /\ rw_result.forecasts[7] = 0
    /\ \A i \in 1..6 : RWHalfWidth(i) < RWHalfWidth(i + 1)

\* C22: the random walk's fitted_values have the length of the input, the
\* entry at the 0-indexed position k being first observed value + k * drift
\* (a full in-sample trajectory, not one-step-ahead forecasts), and mae and
\* mape are computed between this trajectory and the whole series.
C22_RandomWalkFittedTrajectory ==
    ~IsNone(rw_result) =>
        LET drift == DriftOf(ts)
            n == Len(ts)
            trajectory == [k \in 1..n |-> ts[1] + (k - 1) * drift]
            errors == [k \in 1..n |-> Abs(ts[k] - trajectory[k])]
        IN  /\ Len(rw_result.fitted_values) = n
            /\ rw_result.fitted_values = trajectory
            /\ rw_result.mae = SumSeq(errors) \div n
            /\ rw_result.mape =
                  IF \A k \in 1..n : ts[k] > 0
                  THEN (100 * SumSeq([k \in 1..n |-> (errors[k] * Scale) \div ts[k]])) \div n
                  ELSE 50 * Scale

\* C22 witness: a positive series on which the trajectory differs from the
\* one-step-ahead values, with a non-zero mae and mape.
C22_Witness ==
    /\ ~IsNone(rw_result)
    /\ Len(ts) >= 4
    /\ \A k \in 1..Len(ts) : ts[k] > 0
    /\ \E k \in 2..Len(ts) :
          rw_result.fitted_values[k] # ts[k - 1] + DriftOf(ts)
    /\ rw_result.mae > 0
    /\ rw_result.mape > 0

\* the candidates of a search whose fit returned with an AIC that compares
\* below np.inf
Comparable(fits) == {k \in DOMAIN fits : ~fits[k].raises /\ ~fits[k].nan}

\* the earliest candidate of the lowest AIC among the comparable ones
LowestAIC(fits) ==
    CHOOSE k \in Comparable(fits) :
        \A j \in Comparable(fits) :
            fits[k].aic < fits[j].aic \/ (fits[k].aic = fits[j].aic /\ k <= j)

\* the exponential-smoothing result names the earliest shape of lowest AIC
\* among the fits that returned
ESSelectsLowestAIC ==
    ~IsNone(es_result) =>
        /\ Comparable(es_library.fits) # {}
        /\ es_result.method = "Exponential Smoothing ("
              \o models_to_try(ts)[LowestAIC(es_library.fits)] \o ")"
        /\ es_result.aic = es_library.fits[LowestAIC(es_library.fits)].aic

\* C23 as stated: the exponential-smoothing selector returns the shape of
\* lowest AIC among the shapes whose fit did not raise (the earliest on a
\* tie), and returns no result exactly when no shape yields a fit with a
\* comparable AIC.
C23_NoResultExactlyWhenNoShapeFits ==
    "ES" \in invoked =>
        /\ ESSelectsLowestAIC
        /\ IsNone(es_result) <=> Comparable(es_library.fits) = {}

\* C23: the exponential-smoothing selector returns the shape of lowest AIC
\* among the shapes whose fit did not raise (the earliest on a tie), a fit
\* that raises does not end the search, and the estimator returns no result
\* when no shape yields a fit with a comparable AIC; when some shape does, it
\* returns no result only if forecasting from the selected model or
\* measuring its errors raises.
C23_LowestAICAmongTheFitsThatReturned ==
    "ES" \in invoked =>
        /\ ESSelectsLowestAIC
        /\ Comparable(es_library.fits) = {} => IsNone(es_result)
        /\ (IsNone(es_result) /\ Comparable(es_library.fits) # {}) =>
              (es_library.run.raises \/ MetricsRaise(ts))

\* the first shape raised, the second and third tie on the lowest AIC, and
\* the second is returned
C23_Witness ==
    /\ "ES" \in invoked
    /\ es_library.fits[1].raises
    /\ Comparable(es_library.fits) = {2, 3}
    /\ es_library.fits[2].aic = es_library.fits[3].aic
    /\ ~IsNone(es_result)
    /\ es_result.method = "Exponential Smoothing (Linear Trend)"

\* every shape raised or had an AIC that is not a number: no result
C23_NoShapeFits ==
    /\ "ES" \in invoked
    /\ \E k \in DOMAIN es_library.fits : es_library.fits[k].nan
    /\ Comparable(es_library.fits) = {}
    /\ IsNone(es_result)

\* C24: for a series holding a value <= 0 the multiplicative-trend shape is
\* not fitted (the search fits two shapes) and the exponential-smoothing
\* method is never "Exponential Smoothing (Exponential Trend)".
C24_MultiplicativeOnlyForPositiveSeries ==
    ("ES" \in invoked /\ ~AllPositive(ts)) =>
        /\ Len(es_library.fits) = 2
        /\ ~IsNone(es_result) =>
              es_result.method # "Exponential Smoothing (Exponential Trend)"

\* a series with a zero whose exponential smoothing returned a result
C24_Witness ==
    /\ "ES" \in invoked
    /\ ~HasNaN(ts)
    /\ \E k \in DOMAIN ts : ts[k] = 0
    /\ ~IsNone(es_result)

\* a strictly positive series does get the multiplicative shape
C24_PositiveSeriesTriesIt ==
    /\ "ES" \in invoked
    /\ AllPositive(ts)
    /\ Len(es_library.fits) = 3
    /\ ~IsNone(es_result)
    /\ es_result.method = "Exponential Smoothing (Exponential Trend)"

\* the candidates of a search that the claim counts as fitted: the fit
\* returned, converged and has a comparable AIC
Converged(fits) == {k \in Comparable(fits) : fits[k].converged}

\* the earliest candidate of the lowest AIC among the converged ones
LowestConvergedAIC(fits) ==
    CHOOSE k \in Converged(fits) :
        \A j \in Converged(fits) :
            fits[k].aic < fits[j].aic \/ (fits[k].aic = fits[j].aic /\ k <= j)

\* the orders the claim lists, in its order
C25_Orders ==
    << <<0, 1, 0>>, <<1, 0, 0>>, <<0, 0, 1>>, <<1, 1, 0>>, <<0, 1, 1>>, <<1, 1, 1>> >>

\* C25 as stated: the ARIMA search tries exactly the six orders; a candidate
\* that raises or fails to converge is skipped; the reported order is the one
\* of lowest AIC among the others (the earliest on a tie); no result if no
\* candidate fits or if forecasting from the selected model raises.
C25_NonConvergedCandidateIsSkipped ==
    "ARIMA" \in invoked =>
        /\ Len(arima_library.fits) = Len(C25_Orders)
        /\ Converged(arima_library.fits) = {} => IsNone(arima_result)
        /\ arima_library.run.raises => IsNone(arima_result)
        /\ ~IsNone(arima_result) =>
              /\ Converged(arima_library.fits) # {}
              /\ arima_result.method =
                    OrderName(C25_Orders[LowestConvergedAIC(arima_library.fits)])

\* C25: the ARIMA search tries exactly the six orders, each on its own; a
\* candidate whose fit raises is skipped, a candidate whose fit returns
\* competes even when its optimiser did not converge; the reported order is
\* the one of lowest AIC among the fits that returned (the earliest on a
\* tie); no result if no candidate returns a fit with a comparable AIC or if
\* forecasting from the selected model raises.
C25_LowestAICAmongTheOrdersThatReturned ==
    "ARIMA" \in invoked =>
        /\ Len(arima_library.fits) = Len(C25_Orders)
        /\ Comparable(arima_library.fits) = {} => IsNone(arima_result)
        /\ arima_library.run.raises => IsNone(arima_result)
        /\ ~IsNone(arima_result) =>
              /\ Comparable(arima_library.fits) # {}
              /\ arima_result.method =
                    OrderName(C25_Orders[LowestAIC(arima_library.fits)])
              /\ arima_result.aic =
                    arima_library.fits[LowestAIC(arima_library.fits)].aic

\* every order returned a fit, three of them tie on the lowest AIC, and the
\* earliest of the three is reported
C25_Witness ==
    /\ "ARIMA" \in invoked
    /\ Comparable(arima_library.fits) = 1..6
    /\ arima_library.fits[2].aic = arima_library.fits[3].aic
    /\ arima_library.fits[2].aic = arima_library.fits[6].aic
    /\ arima_library.fits[2].aic < arima_library.fits[1].aic
    /\ ~IsNone(arima_result)
    /\ arima_result.method = "ARIMA(1, 0, 0)"

\* only (1,1,0) and (0,1,1) fit: the others raised and were skipped
C25_RaisingOrdersSkipped ==
    /\ "ARIMA" \in invoked
    /\ Comparable(arima_library.fits) = {4, 5}
    /\ ~IsNone(arima_result)
    /\ arima_result.method = "ARIMA(1, 1, 0)"

\* a model was selected and forecasting from it raised: no result
C25_ForecastingRaises ==
    /\ "ARIMA" \in invoked
    /\ ~HasNaN(ts)
    /\ Comparable(arima_library.fits) # {}
    /\ arima_library.run.raises
    /\ IsNone(arima_result)

\* 1.96 times the standard deviation (np.std, ddof 0) of the in-sample
\* residuals of a result
ResidualHalfWidth(r) ==
    (Z95 * StdDev([k \in 1..Len(ts) |-> ts[k] - r.fitted_values[k]], 0)) \div Scale

\* the interval of a result has the half-width of its residuals at every
\* step, below the forecast down to the floor 0 and above it
ConstantHalfWidth(r) ==
    \A i \in DOMAIN r.forecasts :
        /\ r.upper_bounds[i] - r.forecasts[i] = ResidualHalfWidth(r)
        /\ r.lower_bounds[i] = Max(r.forecasts[i] - ResidualHalfWidth(r), 0)

\* C26: for the exponential-smoothing estimator and for the linear-regression
\* fallback, upper_bounds[i] - forecasts[i] is 1.96 times the standard
\* deviation of the in-sample residuals at every step i, and lower_bounds[i]
\* is max(forecasts[i] - that value, 0): the half-width does not grow with
\* the horizon.
C26_HalfWidthConstantOverTheHorizon ==
    /\ ~IsNone(es_result) => ConstantHalfWidth(es_result)
    /\ (EngineReturned /\ ~IsNone(result) /\ result.is_fallback) =>
          ConstantHalfWidth(result)

\* a seven-step exponential-smoothing interval of positive half-width
C26_Witness ==
    /\ forecast_periods = DefaultPeriods
    /\ ~IsNone(es_result)
    /\ ResidualHalfWidth(es_result) > 0
    /\ es_result.upper_bounds[DefaultPeriods] - es_result.forecasts[DefaultPeriods]
          = es_result.upper_bounds[1] - es_result.forecasts[1]

\* a seven-step fallback interval of positive half-width with a lower bound
\* at the floor
C26_FallbackWitness ==
    /\ EngineReturned
    /\ forecast_periods = DefaultPeriods
    /\ ~IsNone(result)
    /\ result.is_fallback
    /\ ResidualHalfWidth(result) > 0
    /\ \E i \in DOMAIN result.forecasts :
          result.lower_bounds[i] = 0 /\ result.forecasts[i] > 0

\* the primary results that are not null and have a mape below 200
BelowThreshold ==
    {r \in {rw_result, es_result, arima_result} :
        ~IsNone(r) /\ r.mape < 200 * Scale}

\* C27: every non-fallback (ensemble) result reports a mape below 200, the
\* minimum over the methods that survive with a mape below 200; the
\* fallback's mape is not subject to the threshold (C27_FallbackAboveThreshold
\* is a returned fallback of mape >= 200).
C27_EnsembleMapeBelowThreshold ==
    (EngineReturned /\ ~IsNone(result) /\ ~result.is_fallback) =>
        /\ result.mape < 200 * Scale
        /\ \E r \in BelowThreshold : result.mape = r.mape
        /\ \A r \in BelowThreshold : result.mape <= r.mape

\* an ensemble next to a method that was discarded for a mape of 200 or more
C27_Witness ==
    /\ EngineReturned
    /\ ~IsNone(result)
    /\ ~result.is_fallback
    /\ \E r \in {rw_result, es_result, arima_result} :
          ~IsNone(r) /\ r.mape >= 200 * Scale
    /\ result.mape < 200 * Scale

\* a fallback result returned with a mape of 200 or more
C27_FallbackAboveThreshold ==
    /\ EngineReturned
    /\ ~IsNone(result)
    /\ result.is_fallback
    /\ result.mape >= 200 * Scale

\* the primary results that are not null, in the order RW, ES, ARIMA
NotNull(r) == ~IsNone(r)

Returned == SelectSeq(<<rw_result, es_result, arima_result>>, NotNull)

\* the value is the plain average of the values, to the model's resolution
PlainAverageOf(v, values) == v = SumSeq(values) \div Len(values)

\* C28: for a series (of finite values) holding a value <= 0, every primary
\* method that returns a result has the penalty mape 50 and survives; the
\* survivors get equal weights 1/n, the ensemble is the plain average of
\* their forecasts and bounds, and the fallback is used only if all three
\* primary methods return null.
C28_EqualWeightsForNonPositiveSeries ==
    (EngineReturned /\ ~HasNaN(ts) /\ ~AllPositive(ts)) =>
        /\ \A k \in DOMAIN Returned : Returned[k].mape = 50 * Scale
        /\ methods = Returned
        /\ ~IsNone(result)
        /\ result.is_fallback <=> Returned = <<>>
        /\ Returned # <<>> =>
              /\ Len(result.weights) = Len(Returned)
              /\ \A k \in DOMAIN Returned :
                    result.weights[k].num * Len(Returned) = result.weights[k].den
              /\ \A i \in 1..forecast_periods :
                    /\ PlainAverageOf(result.forecasts[i],
                          [k \in DOMAIN Returned |-> Returned[k].forecasts[i]])
                    /\ PlainAverageOf(result.lower_bounds[i],
                          [k \in DOMAIN Returned |-> Returned[k].lower_bounds[i]])
                    /\ PlainAverageOf(result.upper_bounds[i],
                          [k \in DOMAIN Returned |-> Returned[k].upper_bounds[i]])

\* a series with a zero on which the three methods return different
\* forecasts, blended with weights 1/3
C28_Witness ==
    /\ EngineReturned
    /\ ~HasNaN(ts)
    /\ \E k \in DOMAIN ts : ts[k] = 0
    /\ Len(Returned) = 3
    /\ ~IsNone(result)
    /\ \E i \in 1..forecast_periods :
          /\ Returned[1].forecasts[i] # Returned[2].forecasts[i]
          /\ result.forecasts[i] # Returned[1].forecasts[i]
          /\ result.forecasts[i] # Returned[2].forecasts[i]

\* a series with a zero on which the three methods return null: the fallback
C28_AllNullFallsBack ==
    /\ EngineReturned
    /\ ~HasNaN(ts)
    /\ \E k \in DOMAIN ts : ts[k] = 0
    /\ Returned = <<>>
    /\ ~IsNone(result)
    /\ result.is_fallback

\* every cached entry is a result of a forecast, under the key of its title
\* and of a value of include_realtime; without real-time data it has no jobs
CacheHoldsSuccessfulResults ==
    \A k \in DOMAIN forecast_cache :
        /\ ~IsNone(forecast_cache[k])
        /\ forecast_cache[k].occupation_title # ""
        /\ \E b \in {"True", "False"} :
              k = forecast_cache[k].occupation_title \o "_" \o b
        /\ k = forecast_cache[k].occupation_title \o "_False" =>
              forecast_cache[k].realtime_jobs_count = 0

\* a request answered 400, 404 or 500 leaves the cache as it was
FailureLeavesCache ==
    response'.status \in {400, 404, 500} => forecast_cache' = forecast_cache

\* a request whose key is cached is answered from the cache: nothing is
\* computed, fetched, saved or cached for it
HitReturnsStored ==
    LET key == request'.occupation_title \o "_" \o
                  (IF request'.include_realtime THEN "True" ELSE "False")
    IN  (request'.has_json /\ key \in DOMAIN forecast_cache) =>
            /\ response'.status = 200
            /\ response'.cached
            /\ response'.data = forecast_cache[key]
            /\ ~response'.computed
            /\ ~response'.fetched
            /\ forecast_cache' = forecast_cache
            /\ realtime_data' = realtime_data

\* C29: across any sequence of forecast requests the cache only ever holds
\* non-empty successful results under the key occupation_title + '_' +
\* include_realtime; a request answered 404, 400 or 500 leaves the cache
\* unchanged; and once a key is cached every later request with that key
\* returns the stored result with cached == true, without recomputing the
\* forecast or fetching real-time data.
C29_CacheHoldsOnlySuccessesAndServesThem ==
    /\ []CacheHoldsSuccessfulResults
    /\ [][FailureLeavesCache /\ HitReturnsStored]_vars

\* a request answered from the cache, with the jobs of the request that
\* filled it, while another key is cached too
C29_Witness ==
    /\ request.has_json
    /\ request.include_realtime
    /\ response.status = 200
    /\ response.cached
    /\ ~response.computed
    /\ response.data.realtime_jobs_count = 2
    /\ response.data =
          forecast_cache[CacheKey(request.occupation_title, request.include_realtime)]
    /\ CacheKey(request.occupation_title, FALSE) \in DOMAIN forecast_cache

\* a request answered 404 next to a cache that holds another key
C29_UnavailableNextToCached ==
    /\ response.status = 404
    /\ response.computed
    /\ DOMAIN forecast_cache # {}
    /\ CacheKey(request.occupation_title, request.include_realtime)
          \notin DOMAIN forecast_cache

\* no occupation's stored list holds two jobs of the same identifier
\* title + '_' + company
NoDuplicateIds ==
    \A o \in DOMAIN realtime_data :
        \A i, j \in DOMAIN realtime_data[o] :
            i # j => JobId(realtime_data[o][i]) # JobId(realtime_data[o][j])

\* what a call makes of the store: the list of its occupation grows at its
\* end by jobs of the batch whose identifiers are new and differ, the other
\* lists stay, the value returned is the number appended, and a call that
\* repeats the one before appends nothing and returns 0
SaveAppendsOnlyNewJobs ==
    LET occ == saved'.occupation_title
        batch == saved'.job_data
        old == JobsOf(realtime_data, occ)
        new == JobsOf(realtime_data', occ)
        appended == SubSeq(new, Len(old) + 1, Len(new))
    IN  /\ Len(new) >= Len(old)
        /\ SubSeq(new, 1, Len(old)) = old
        /\ \A o \in DOMAIN realtime_data \ {occ} :
              o \in DOMAIN realtime_data' /\ realtime_data'[o] = realtime_data[o]
        /\ \A k \in DOMAIN appended :
              /\ JobId(appended[k]) \notin ExistingJobIds(old)
              /\ \E j \in DOMAIN batch :
                    /\ batch[j].isDict
                    /\ batch[j].title = appended[k].title
                    /\ batch[j].company = appended[k].company
              /\ \A m \in DOMAIN appended :
                    m # k => JobId(appended[m]) # JobId(appended[k])
        /\ saved'.returned = Len(appended)
        /\ (saved.called /\ saved.occupation_title = occ /\ saved.job_data = batch) =>
              (new = old /\ saved'.returned = 0)

\* C30: after any sequence of save_realtime_data calls from a store without
\* duplicates, no occupation's list holds two jobs of the same identifier
\* title + '_' + company; each call appends only jobs whose identifier is
\* new (a batch is deduplicated against itself too), returns the number
\* appended, never removes or reorders stored jobs, and saving the same
\* batch a second time appends nothing and returns 0.
C30_StoreStaysFreeOfDuplicates ==
    /\ []NoDuplicateIds
    /\ [][SaveAppendsOnlyNewJobs]_vars

\* a batch of two different jobs of one identifier, of which one was
\* appended behind a job stored before
C30_Witness ==
    /\ saved.called
    /\ Len(saved.job_data) = 2
    /\ saved.job_data[1].isDict
    /\ saved.job_data[2].isDict
    /\ saved.job_data[1] # saved.job_data[2]
    /\ JobId(saved.job_data[1]) = JobId(saved.job_data[2])
    /\ saved.returned = 1
    /\ Len(JobsOf(realtime_data, saved.occupation_title)) = 2

\* a batch all of whose jobs are stored already: nothing appended, 0
C30_NothingNew ==
    /\ saved.called
    /\ saved.job_data # <<>>
    /\ \A k \in DOMAIN saved.job_data :
          /\ saved.job_data[k].isDict
          /\ JobId(saved.job_data[k]) \in
                ExistingJobIds(JobsOf(realtime_data, saved.occupation_title))
    /\ saved.returned = 0

=============================================================================
